---- MODULE Spec2Model ----
(***************************************************************************)
(* State-machine model of the email verification subsystem                 *)
(* (src/email_verifier.py, class EmailVerifier): the per-address pipeline  *)
(* verify_email_comprehensive with its DNS lookups and SMTP handshake, the *)
(* batch worker verify_email_batch and the orchestrator verify_all_emails  *)
(* running the batches on a ThreadPoolExecutor.                            *)
(*                                                                         *)
(* Strings are modelled as sequences of one-character strings so that      *)
(* lower(), strip(), split('@'), the substring test `in` and the regular   *)
(* expression of validate_email_format are computed character by           *)
(* character.                                                              *)
(***************************************************************************)
EXTENDS Integers, Sequences, FiniteSets, TLC

(***************************************************************************)
(* Bounds of the model.  batch_size is 50 in the source (line 200); the    *)
(* model runs the same code with a small batch size so that several        *)
(* batches exist within the bound on the number of records.                *)
(***************************************************************************)
MaxRecords == 3

MaxWorkers == 2

batch_size == 2

\* the longest email list of the check of the partition into batches
MaxListLen == 6

\* the longest address of the exhaustive format check
MaxAddressLen == 8

(***************************************************************************)
(* Characters and string functions.                                        *)
(***************************************************************************)
LowerSeq ==
    <<"a","b","c","d","e","f","g","h","i","j","k","l","m",
      "n","o","p","q","r","s","t","u","v","w","x","y","z">>

UpperSeq ==
    <<"A","B","C","D","E","F","G","H","I","J","K","L","M",
      "N","O","P","Q","R","S","T","U","V","W","X","Y","Z">>

Lower == {LowerSeq[i] : i \in 1..26}

Upper == {UpperSeq[i] : i \in 1..26}

Letter == Lower \cup Upper

Digit == {"0","1","2","3","4","5","6","7","8","9"}

Whitespace == {" ", "\t", "\n", "\r"}

\* [a-zA-Z0-9._%+-]
LocalChars == Letter \cup Digit \cup {".", "_", "%", "+", "-"}

\* [a-zA-Z0-9.-]
DomainChars == Letter \cup Digit \cup {".", "-"}

\* the values an 'email' field can hold that are not text
None == <<"<None>">>

NonString == <<"<int>">>

IsStr(s) == s # None /\ s # NonString

LowerChar(c) ==
    IF c \in Upper
    THEN LowerSeq[CHOOSE i \in 1..26 : UpperSeq[i] = c]
    ELSE c

\* str.lower()
ToLower(s) == [i \in 1..Len(s) |-> LowerChar(s[i])]

\* str.strip(): leading and trailing whitespace removed
Strip(s) ==
    LET keep == {i \in 1..Len(s) : s[i] \notin Whitespace}
    IN  IF keep = {} THEN <<>>
        ELSE LET lo == CHOOSE i \in keep : \A j \in keep : i <= j
                 hi == CHOOSE i \in keep : \A j \in keep : j <= i
             IN  SubSeq(s, lo, hi)

\* the positions of '@' in s
AtPositions(s) == {i \in 1..Len(s) : s[i] = "@"}

\* '@' in s
HasAt(s) == AtPositions(s) # {}

\* s.split('@')[1]: the text between the first '@' and the second one (or the end)
SplitAt1(s) ==
    LET ats   == AtPositions(s)
        first == CHOOSE i \in ats : \A j \in ats : i <= j
        rest  == ats \ {first}
        stop  == IF rest = {} THEN Len(s) + 1
                 ELSE CHOOSE i \in rest : \A j \in rest : i <= j
    IN  SubSeq(s, first + 1, stop - 1)

\* sub in s (Python substring test)
Contains(s, sub) ==
    \E k \in 0..(Len(s) - Len(sub)) :
        \A i \in 1..Len(sub) : s[k + i] = sub[i]

\* the pattern asking for a final label of three letters or more
MatchesPatternLongTld(s) ==
    \E at \in 1..Len(s) : \E dot \in 1..Len(s) :
        /\ s[at] = "@"
        /\ at > 1
        /\ \A i \in 1..(at - 1) : s[i] \in LocalChars
        /\ dot > at + 1
        /\ \A i \in (at + 1)..(dot - 1) : s[i] \in DomainChars
        /\ s[dot] = "."
        /\ Len(s) - dot >= 3
        /\ \A i \in (dot + 1)..Len(s) : s[i] \in Letter

\* re.match(r'^[a-zA-Z0-9._%+-]+@[a-zA-Z0-9.-]+\.[a-zA-Z]{2,}$', s)
MatchesPattern(s) ==
    \E at \in 1..Len(s) : \E dot \in 1..Len(s) :
        /\ s[at] = "@"
        /\ at > 1
        /\ \A i \in 1..(at - 1) : s[i] \in LocalChars
        /\ dot > at + 1
        /\ \A i \in (at + 1)..(dot - 1) : s[i] \in DomainChars
        /\ s[dot] = "."
        /\ Len(s) - dot >= 2
        /\ \A i \in (dot + 1)..Len(s) : s[i] \in Letter

\* a validation that accepts whatever it is given
ValidateAnything(email) == TRUE

validate_email_format(email) == MatchesPattern(ToLower(email))

(***************************************************************************)
(* Configuration: the domain lists of __init__ and a second setting of the *)
(* same attributes in which the deny-list has one more entry.              *)
(***************************************************************************)
DefaultDisposable ==
    { <<"1","0","m","i","n","u","t","e","m","a","i","l",".","c","o","m">>,
      <<"g","u","e","r","r","i","l","l","a","m","a","i","l",".","c","o","m">>,
      <<"m","a","i","l","i","n","a","t","o","r",".","c","o","m">>,
      <<"t","e","m","p","m","a","i","l",".","o","r","g">>,
      <<"t","h","r","o","w","a","w","a","y",".","e","m","a","i","l">>,
      <<"e","x","a","m","p","l","e",".","c","o","m">>,
      <<"t","e","s","t",".","c","o","m">> }

DefaultTrusted ==
    { <<"g","m","a","i","l",".","c","o","m">>,
      <<"h","o","t","m","a","i","l",".","c","o","m">>,
      <<"y","a","h","o","o",".","c","o","m">>,
      <<"o","u","t","l","o","o","k",".","c","o","m">>,
      <<"t","u","r","k",".","n","e","t">>,
      <<"s","u","p","e","r","o","n","l","i","n","e",".","c","o","m">>,
      <<"m","y","n","e","t",".","c","o","m">>,
      <<"t","t","n","e","t",".","n","e","t",".","t","r">>,
      <<"c","o","m",".","t","r">>,
      <<"n","e","t",".","t","r">>,
      <<"o","r","g",".","t","r">>,
      <<"i","n","f","o",".","t","r">>,
      <<"b","i","z",".","t","r">> }

\* "spam.com.tr"
SpamComTr == <<"s","p","a","m",".","c","o","m",".","t","r">>

\* the deny-lists a caller is modelled to configure
DisposableSettings == {DefaultDisposable, DefaultDisposable \cup {SpamComTr}}

(***************************************************************************)
(* Candidate addresses.                                                    *)
(***************************************************************************)
\* "info@gmail.com"
InfoGmail == <<"i","n","f","o","@","g","m","a","i","l",".","c","o","m">>

\* "not-an-email"
NotAnEmail == <<"n","o","t","-","a","n","-","e","m","a","i","l">>

\* "x@10minutemail.com"
XTenMinute == <<"x","@","1","0","m","i","n","u","t","e","m","a","i","l",".","c","o","m">>

\* "a@firma.net"
AFirma == <<"a","@","f","i","r","m","a",".","n","e","t">>

\* "a@com.tr.io"
AComTrIo == <<"a","@","c","o","m",".","t","r",".","i","o">>

\* " Info@Gmail.com "
PaddedInfoGmail == <<" ","I","n","f","o","@","G","m","a","i","l",".","c","o","m"," ">>

\* "a@b"
ANoDot == <<"a","@","b">>

\* "a@b@c.io"
TwoAts == <<"a","@","b","@","c",".","i","o">>

\* "x@spam.com.tr"
XSpamComTr == <<"x","@","s","p","a","m",".","c","o","m",".","t","r">>

\* every value an 'email' field takes in the model
Candidates ==
    { InfoGmail, NotAnEmail, XTenMinute, AFirma, AComTrIo, PaddedInfoGmail,
      ANoDot, TwoAts, XSpamComTr, <<>>, None, NonString }

\* the addresses of the multi-record runs
RunCandidates == {InfoGmail, NotAnEmail}

NoField == "<absent>"

Record(i, e) == [name |-> i, email |-> e, email_verification |-> NoField]

\* the record lists load_companies_from_csv is modelled to read: every list of
\* one record, and every list of up to MaxRecords records over RunCandidates
\* a list whose first email field holds a number
NumberThenAddress == <<Record(1, NonString), Record(2, InfoGmail)>>

CsvFiles ==
    { <<Record(1, e)>> : e \in Candidates }
      \cup {NumberThenAddress}
      \cup UNION { { [i \in 1..n |-> Record(i, f[i])] : f \in [1..n -> RunCandidates] }
                   : n \in 0..MaxRecords }

(***************************************************************************)
(* State.                                                                  *)
(***************************************************************************)
VARIABLES
    companies,                \* self.companies
    disposable_domains,       \* self.disposable_domains
    trusted_turkish_domains,  \* self.trusted_turkish_domains
    verified_count,           \* self.verified_count
    bad_count,                \* self.bad_count
    pc,                       \* where verify_all_emails stands
    max_workers,              \* the argument of verify_all_emails
    batches,                  \* the local list of batches
    submitted,                \* how many batches executor.submit has queued
    future,                   \* per batch: the state and outcome of its future
    collected,                \* the batches as_completed has yielded, in order
    all_results,              \* the local list all_results
    tagged,                   \* how many records the tagging loop has written
    worker                    \* per pool thread: its batch and its position in the code

vars ==
    << companies, disposable_domains, trusted_turkish_domains, verified_count,
       bad_count, pc, max_workers, batches, submitted, future, collected,
       all_results, tagged, worker >>

Workers == 1..MaxWorkers

StageOrder == <<"FormatCheck", "DomainExistence", "MXExistence", "Reputation", "SMTPProbe">>

\* a pool thread that holds no batch
IdleWorker ==
    [ batch   |-> 0,        \* index of the batch being processed
      pos     |-> 0,        \* index in the batch of the email being verified
      results |-> <<>>,     \* the local list results of verify_email_batch
      at      |-> "idle",   \* position in the code
      email   |-> <<>>,     \* the local email of verify_email_comprehensive
      domain  |-> <<>>,     \* the local domain
      stages  |-> <<>>,     \* the stages entered, in order
      passed  |-> {},       \* the stages whose check passed
      io      |-> <<>>,     \* the DNS queries and SMTP commands issued, in order
      replies |-> <<>>,     \* what the environment answered to each of them
      conn    |-> "none",   \* the socket of the probe: none, open or closed
      mail    |-> 0,        \* the reply code of MAIL FROM
      rcpt    |-> 0,        \* the reply code of RCPT TO
      probe   |-> "none",   \* how test_smtp_connection ended
      verdict |-> "" ]      \* the value verify_email_comprehensive returned

Init ==
    /\ companies = <<>>
    /\ disposable_domains = DefaultDisposable
    /\ trusted_turkish_domains = DefaultTrusted
    /\ verified_count = 0
    /\ bad_count = 0
    /\ pc = "new"
    /\ max_workers = 0
    /\ batches = <<>>
    /\ submitted = 0
    /\ future = <<>>
    /\ collected = <<>>
    /\ all_results = <<>>
    /\ tagged = 0
    /\ worker = [w \in Workers |-> IdleWorker]

(***************************************************************************)
(* The orchestrator: configuration, load_companies_from_csv and            *)
(* verify_all_emails.                                                      *)
(***************************************************************************)
\* the caller sets the deny-list attribute before the run
SetDisposableDomains ==
    /\ pc = "new"
    /\ \E d \in DisposableSettings : disposable_domains' = d
    /\ pc' = "configured"
    /\ UNCHANGED << companies, trusted_turkish_domains, verified_count, bad_count,
                    max_workers, batches, submitted, future, collected,
                    all_results, tagged, worker >>

load_companies_from_csv ==
    /\ pc \in {"new", "configured"}
    /\ \E file \in CsvFiles : companies' = file
    /\ pc' = "loaded"
    /\ UNCHANGED << disposable_domains, trusted_turkish_domains, verified_count,
                    bad_count, max_workers, batches, submitted, future, collected,
                    all_results, tagged, worker >>

\* a partition that drops the emails after the last full batch
BatchesDropRemainder(emails) ==
    LET n == Len(emails) \div batch_size
    IN  [k \in 1..n |-> SubSeq(emails, (k - 1) * batch_size + 1, k * batch_size)]

\* [emails[i:i + batch_size] for i in range(0, len(emails), batch_size)]
Batches(emails) ==
    LET n == (Len(emails) + batch_size - 1) \div batch_size
    IN  [k \in 1..n |->
            SubSeq(emails, (k - 1) * batch_size + 1,
                   IF k * batch_size < Len(emails) THEN k * batch_size ELSE Len(emails))]

\* lines 194-203: the emails are extracted and cut into batches
StartVerifyAll ==
    /\ pc \in {"new", "configured", "loaded"}
    /\ \E m \in Workers : max_workers' = m
    /\ batches' = Batches([i \in 1..Len(companies) |-> companies[i].email])
    /\ future' = [k \in 1..Len(batches') |-> [state |-> "unsubmitted", result |-> <<>>, order |-> 0, early |-> FALSE]]
    /\ submitted' = 0
    /\ collected' = <<>>
    /\ all_results' = <<>>
    /\ tagged' = 0
    /\ pc' = "submit"
    /\ UNCHANGED << companies, disposable_domains, trusted_turkish_domains,
                    verified_count, bad_count, worker >>

\* lines 207-210: one executor.submit of the dict comprehension
Submit ==
    /\ pc = "submit"
    /\ submitted < Len(batches)
    /\ submitted' = submitted + 1
    /\ future' = [future EXCEPT ![submitted + 1].state = "pending"]
    /\ UNCHANGED << companies, disposable_domains, trusted_turkish_domains,
                    verified_count, bad_count, pc, max_workers, batches, collected,
                    all_results, tagged, worker >>

\* a future is finished once its work item returned or raised
IsFinished(f) == f.state \in {"done", "failed"}

\* the dict comprehension is complete: the loop over as_completed begins.
\* as_completed first takes the set of the futures that are finished already
BeginCollect ==
    /\ pc = "submit"
    /\ submitted = Len(batches)
    /\ pc' = "collect"
    /\ future' = [b \in 1..Len(future) |-> [future[b] EXCEPT !.early = IsFinished(future[b])]]
    /\ UNCHANGED << companies, disposable_domains, trusted_turkish_domains,
                    verified_count, bad_count, max_workers, batches, submitted,
                    collected, all_results, tagged, worker >>

InCollected(b) == \E k \in 1..Len(collected) : collected[k] = b

\* a failed batch answered with a single "BAD"
BadTimesOnce(n) == <<"BAD">>

\* ["BAD"] * n
BadTimes(n) == [i \in 1..n |-> "BAD"]

\* the list one yielded future adds to all_results (lines 214-224)
BatchOutcome(b) ==
    IF future[b].state = "done" THEN future[b].result ELSE BadTimes(Len(batches[b]))

\* the futures as_completed may yield next: those of its first set in the
\* order of a Python set, which is any order; then the others in the order
\* in which they finished
Yieldable ==
    LET waiting == {b \in 1..Len(future) : IsFinished(future[b]) /\ ~InCollected(b)}
        first   == {b \in waiting : future[b].early}
    IN  IF first # {} THEN first
        ELSE {b \in waiting : \A c \in waiting : future[b].order <= future[c].order}

\* a collection loop that puts the results of a batch in front of the list
CollectInFront ==
    /\ pc = "collect"
    /\ \E b \in Yieldable :
        /\ all_results' = BatchOutcome(b) \o all_results
        /\ collected' = Append(collected, b)
    /\ UNCHANGED << companies, disposable_domains, trusted_turkish_domains,
                    verified_count, bad_count, pc, max_workers, batches, submitted,
                    future, tagged, worker >>

\* lines 213-224: as_completed yields a finished future, its results (or "BAD"
\* per email of a failed batch) are appended
Collect ==
    /\ pc = "collect"
    /\ \E b \in Yieldable :
        /\ all_results' = all_results \o BatchOutcome(b)
        /\ collected' = Append(collected, b)
    /\ UNCHANGED << companies, disposable_domains, trusted_turkish_domains,
                    verified_count, bad_count, pc, max_workers, batches, submitted,
                    future, tagged, worker >>

\* a collection loop left after its first future, without waiting for the pool
EndCollectWithoutWaiting ==
    /\ pc = "collect"
    /\ Len(collected) >= 1
    /\ pc' = "tag"
    /\ UNCHANGED << companies, disposable_domains, trusted_turkish_domains,
                    verified_count, bad_count, max_workers, batches, submitted,
                    future, collected, all_results, tagged, worker >>

\* every future was yielded and the executor is shut down: the with block ends
EndCollect ==
    /\ pc = "collect"
    /\ Len(collected) = Len(batches)
    /\ pc' = "tag"
    /\ UNCHANGED << companies, disposable_domains, trusted_turkish_domains,
                    verified_count, bad_count, max_workers, batches, submitted,
                    future, collected, all_results, tagged, worker >>

\* a tagging loop that rebuilds the record and loses its name
TagLosesName ==
    /\ pc = "tag"
    /\ tagged < Len(companies)
    /\ LET i == tagged + 1
       IN  companies' = [companies EXCEPT ![i] =
                [name |-> 0, email |-> @.email,
                 email_verification |-> IF i <= Len(all_results) THEN all_results[i] ELSE "BAD"]]
    /\ tagged' = tagged + 1
    /\ UNCHANGED << disposable_domains, trusted_turkish_domains, verified_count,
                    bad_count, pc, max_workers, batches, submitted, future,
                    collected, all_results, worker >>

\* lines 227-231: one iteration of the tagging loop
Tag ==
    /\ pc = "tag"
    /\ tagged < Len(companies)
    /\ LET i == tagged + 1
       IN  companies' = [companies EXCEPT ![i].email_verification =
                            IF i <= Len(all_results) THEN all_results[i] ELSE "BAD"]
    /\ tagged' = tagged + 1
    /\ UNCHANGED << disposable_domains, trusted_turkish_domains, verified_count,
                    bad_count, pc, max_workers, batches, submitted, future,
                    collected, all_results, worker >>

\* a count that misses the first result
CountOfSkipFirst(results, token) ==
    Cardinality({i \in 2..Len(results) : results[i] = token})

\* sum(1 for result in results if result == token)
CountOf(results, token) == Cardinality({i \in 1..Len(results) : results[i] = token})

\* lines 234-242: the counts, then the success rate, a division by
\* len(all_results) that raises ZeroDivisionError for an empty list
Count ==
    /\ pc = "tag"
    /\ tagged = Len(companies)
    /\ verified_count' = CountOf(all_results, "200")
    /\ bad_count' = CountOf(all_results, "BAD")
    /\ pc' = IF Len(all_results) = 0 THEN "raised" ELSE "returned"
    /\ UNCHANGED << companies, disposable_domains, trusted_turkish_domains,
                    max_workers, batches, submitted, future, collected,
                    all_results, tagged, worker >>

(***************************************************************************)
(* The environment's answers.                                              *)
(***************************************************************************)
\* what one resolver.resolve call ends with: an answer holding at least one
\* record, or an exception (NXDOMAIN, NoAnswer, SERVFAIL ... or a timeout)
DnsAnswers == {"answer", "nxdomain", "timeout"}

\* the reply codes a server is modelled to give to MAIL FROM and to RCPT TO
MailCodes == {250, 550}

RcptCodes == {250, 251, 550}

\* str(mx_records[0].exchange): the first mail exchanger the resolver names
MxHost(domain) == <<"m","x",".">> \o domain

\* self.sending_domain, "gatesweb.top"
sending_domain == <<"g","a","t","e","s","w","e","b",".","t","o","p">>

\* f"test@{self.sending_domain}"
Sender == <<"t","e","s","t","@">> \o sending_domain

(***************************************************************************)
(* The stages of the pipeline as functions of the environment's answer.    *)
(***************************************************************************)
\* an existence check whose handler covers NXDOMAIN only
CheckExistsNxdomainOnly(answer) == answer # "nxdomain"

\* lines 63-70: True for an answer, False for every exception
check_domain_exists(answer) == answer = "answer"

\* lines 54-61
check_domain_mx_record(answer) == answer = "answer"

\* line 109: any(trusted in domain for trusted in self.trusted_turkish_domains)
IsTrusted(domain) == \E t \in trusted_turkish_domains : Contains(domain, t)

\* a reputation check without the allow-list
CheckReputationNoAllowList(domain, answer) ==
    IF domain \in disposable_domains THEN FALSE
    ELSE answer = "answer"

\* a reputation check that lets every unknown domain pass
CheckReputationUnknownPasses(domain, answer) ==
    IF \E t \in trusted_turkish_domains : Contains(domain, t) THEN TRUE
    ELSE domain \notin disposable_domains

\* lines 105-121, with the answer to the A query of the last branch
check_domain_reputation(domain, answer) ==
    IF IsTrusted(domain) THEN TRUE
    ELSE IF domain \in disposable_domains THEN FALSE
    ELSE check_domain_exists(answer)

\* whether check_domain_reputation issues a DNS query for the domain
ReputationQueries(domain) == ~IsTrusted(domain) /\ domain \notin disposable_domains

\* the probe accepting the code 250 only
ProbeResultOnly250(mail, rcpt) ==
    IF mail # 250 THEN "rejected"
    ELSE IF rcpt = 250 THEN "accepted"
    ELSE "rejected"

\* lines 91-99: the value of test_smtp_connection after a QUIT that succeeded
ProbeResult(mail, rcpt) ==
    IF mail # 250 THEN "rejected"
    ELSE IF rcpt \in {250, 251} THEN "accepted"
    ELSE "rejected"

\* lines 99-103: True only for the accepting return; the handler returns False
SmtpReturn(probe) == probe = "accepted"

\* the failing branch returning another word than "BAD"
SmtpVerdictFail(probe) == IF SmtpReturn(probe) THEN "200" ELSE "FAIL"

\* lines 152-158.  The handler of lines 159-162 runs only if
\* test_smtp_connection raises, which its own handler (line 101) prevents.
SmtpVerdict(probe) == IF SmtpReturn(probe) THEN "200" ELSE "BAD"

(***************************************************************************)
(* The pool threads: verify_email_batch and verify_email_comprehensive.    *)
(***************************************************************************)
Event(op, arg) == [op |-> op, arg |-> arg]

Enter(r, stage) == [r EXCEPT !.stages = Append(@, stage)]

Pass(r, stage) == [r EXCEPT !.passed = @ \cup {stage}]

Issue(r, op, arg) == [r EXCEPT !.io = Append(@, Event(op, arg))]

\* what the environment answers to a query or command: a DNS answer, "ok",
\* a reply code, or "raise" for a call that ends with an exception
Reply(kind, code) == [kind |-> kind, code |-> code]

Answered(r, kind, code) == [r EXCEPT !.replies = Append(@, Reply(kind, code))]

Return(r, v) == [r EXCEPT !.at = "returned", !.verdict = v]

\* test_smtp_connection ends and verify_email_comprehensive returns on its value
EndProbe(r, probe) ==
    LET q == [r EXCEPT !.probe = probe]
    IN  Return(IF SmtpReturn(probe) THEN Pass(q, "SMTPProbe") ELSE q, SmtpVerdict(probe))

\* an exception that leaves test_smtp_connection: the handler of lines
\* 159-162 takes it and answers "200"
RaisedToCaller(r) ==
    Return([Answered(r, "raise", 0) EXCEPT !.conn = IF @ = "open" THEN "closed" ELSE @,
                                            !.probe = "fault"],
           "200")

\* a call on the SMTP object raised: smtplib's send and getreply close the
\* socket before they raise, and the handler of line 101 returns False
Raised(r) ==
    EndProbe([Answered(r, "raise", 0) EXCEPT !.conn = IF @ = "open" THEN "closed" ELSE @],
             "fault")

Running(w) == w <= max_workers /\ worker[w].batch # 0

CurrentEmail(w) == batches[worker[w].batch][worker[w].pos]

ThreadFrame ==
    UNCHANGED << companies, disposable_domains, trusted_turkish_domains,
                 verified_count, bad_count, pc, max_workers, batches, submitted,
                 collected, all_results, tagged >>

\* a pool that starts a thread beyond max_workers
TakeBatchAnyThread(w) ==
    /\ worker[w].batch = 0
    /\ \A v \in 1..(w - 1) : worker[v].batch # 0
    /\ \E b \in 1..Len(batches) :
        /\ future[b].state = "pending"
        /\ \A c \in 1..(b - 1) : future[c].state # "pending"
        /\ future' = [future EXCEPT ![b].state = "running"]
        /\ worker' = [worker EXCEPT ![w] = [IdleWorker EXCEPT !.batch = b, !.pos = 1, !.at = "call"]]
    /\ ThreadFrame

\* a pool thread takes the oldest queued work item.  The threads of the pool
\* are interchangeable: the item goes to the idle thread of lowest index.
TakeBatch(w) ==
    /\ w <= max_workers
    /\ worker[w].batch = 0
    /\ \A v \in 1..(w - 1) : worker[v].batch # 0
    /\ \E b \in 1..Len(batches) :
        /\ future[b].state = "pending"
        /\ \A c \in 1..(b - 1) : future[c].state # "pending"
        /\ future' = [future EXCEPT ![b].state = "running"]
        /\ worker' = [worker EXCEPT ![w] = [IdleWorker EXCEPT !.batch = b, !.pos = 1, !.at = "call"]]
    /\ ThreadFrame

\* lines 125-134: the pre-check, the normalisation and validate_email_format.
\* A value that is not text makes `'@' not in email` raise TypeError.
FormatCheck(w) ==
    /\ Running(w)
    /\ worker[w].at = "call"
    /\ LET e == CurrentEmail(w)
           r == Enter(worker[w], "FormatCheck")
       IN  worker' = [worker EXCEPT ![w] =
               IF e = NonString THEN [r EXCEPT !.at = "raised"]
               ELSE IF e = None \/ e = <<>> \/ ~HasAt(e) THEN Return(r, "BAD")
               ELSE LET email == Strip(ToLower(e))
                        q     == [r EXCEPT !.email = email, !.domain = SplitAt1(email)]
                    IN  IF validate_email_format(email)
                        THEN [Pass(q, "FormatCheck") EXCEPT !.at = "DomainExistence"]
                        ELSE Return(q, "BAD")]
    /\ UNCHANGED future
    /\ ThreadFrame

\* an existence stage that remembers a rejected address: the address just
\* rejected is rejected again without a lookup
DomainExistenceRemembersBad(w) ==
    /\ Running(w)
    /\ worker[w].at = "DomainExistence"
    /\ \E answer \in DnsAnswers :
        LET e == Enter(worker[w], "DomainExistence")
            r == Answered(Issue(e, "A", worker[w].domain), answer, 0)
            n == Len(worker[w].results)
        IN  worker' = [worker EXCEPT ![w] =
                IF /\ n > 0
                   /\ worker[w].results[n] = "BAD"
                   /\ batches[worker[w].batch][n] = CurrentEmail(w)
                THEN Return(e, "BAD")
                ELSE IF check_domain_exists(answer)
                THEN [Pass(r, "DomainExistence") EXCEPT !.at = "MXExistence"]
                ELSE Return(r, "BAD")]
    /\ UNCHANGED future
    /\ ThreadFrame

\* lines 136-139
DomainExistence(w) ==
    /\ Running(w)
    /\ worker[w].at = "DomainExistence"
    /\ \E answer \in DnsAnswers :
        LET r == Answered(Issue(Enter(worker[w], "DomainExistence"), "A", worker[w].domain),
                          answer, 0)
        IN  worker' = [worker EXCEPT ![w] =
                IF check_domain_exists(answer)
                THEN [Pass(r, "DomainExistence") EXCEPT !.at = "MXExistence"]
                ELSE Return(r, "BAD")]
    /\ UNCHANGED future
    /\ ThreadFrame

\* the MX stage without its return: a failed check goes on to the next stage
MXExistenceNoReturn(w) ==
    /\ Running(w)
    /\ worker[w].at = "MXExistence"
    /\ \E answer \in DnsAnswers :
        LET r == Answered(Issue(Enter(worker[w], "MXExistence"), "MX", worker[w].domain),
                          answer, 0)
        IN  worker' = [worker EXCEPT ![w] =
                IF check_domain_mx_record(answer)
                THEN [Pass(r, "MXExistence") EXCEPT !.at = "Reputation"]
                ELSE [r EXCEPT !.at = "Reputation"]]
    /\ UNCHANGED future
    /\ ThreadFrame

\* lines 141-144
MXExistence(w) ==
    /\ Running(w)
    /\ worker[w].at = "MXExistence"
    /\ \E answer \in DnsAnswers :
        LET r == Answered(Issue(Enter(worker[w], "MXExistence"), "MX", worker[w].domain),
                          answer, 0)
        IN  worker' = [worker EXCEPT ![w] =
                IF check_domain_mx_record(answer)
                THEN [Pass(r, "MXExistence") EXCEPT !.at = "Reputation"]
                ELSE Return(r, "BAD")]
    /\ UNCHANGED future
    /\ ThreadFrame

\* a reputation stage that reuses the verdict of the address before it
ReputationUsesLastResult(w) ==
    /\ Running(w)
    /\ worker[w].at = "Reputation"
    /\ \E answer \in DnsAnswers :
        LET d == worker[w].domain
            e == Enter(worker[w], "Reputation")
            r == IF ReputationQueries(d) THEN Answered(Issue(e, "A", d), answer, 0) ELSE e
            n == Len(worker[w].results)
        IN  worker' = [worker EXCEPT ![w] =
                IF n > 0 /\ worker[w].results[n] = "BAD" THEN Return(e, "BAD")
                ELSE IF check_domain_reputation(d, answer)
                THEN [Pass(r, "Reputation") EXCEPT !.at = "SMTPProbe"]
                ELSE Return(r, "BAD")]
    /\ UNCHANGED future
    /\ ThreadFrame

\* lines 146-149
Reputation(w) ==
    /\ Running(w)
    /\ worker[w].at = "Reputation"
    /\ \E answer \in DnsAnswers :
        LET d == worker[w].domain
            e == Enter(worker[w], "Reputation")
            r == IF ReputationQueries(d) THEN Answered(Issue(e, "A", d), answer, 0) ELSE e
        IN  worker' = [worker EXCEPT ![w] =
                IF check_domain_reputation(d, answer)
                THEN [Pass(r, "Reputation") EXCEPT !.at = "SMTPProbe"]
                ELSE Return(r, "BAD")]
    /\ UNCHANGED future
    /\ ThreadFrame

\* lines 74-79: the probe resolves the MX record again
SmtpResolve(w) ==
    /\ Running(w)
    /\ worker[w].at = "SMTPProbe"
    /\ \E answer \in DnsAnswers :
        LET r == Answered(Issue(Enter(worker[w], "SMTPProbe"), "MX", SplitAt1(worker[w].email)),
                          answer, 0)
        IN  worker' = [worker EXCEPT ![w] =
                IF answer = "answer" THEN [r EXCEPT !.at = "connect"]
                ELSE EndProbe(r, "fault")]
    /\ UNCHANGED future
    /\ ThreadFrame

\* lines 82-86: server.connect(mx_record, 25) succeeds or raises
SmtpConnect(w) ==
    /\ Running(w)
    /\ worker[w].at = "connect"
    /\ LET r == Issue(worker[w], "CONNECT", MxHost(worker[w].domain))
       IN  \/ worker' = [worker EXCEPT ![w] =
                    [Answered(r, "ok", 0) EXCEPT !.at = "helo", !.conn = "open"]]
           \/ worker' = [worker EXCEPT ![w] = Raised(r)]
    /\ UNCHANGED future
    /\ ThreadFrame

\* line 87: server.helo(self.sending_domain); its reply code is not looked at
SmtpHelo(w) ==
    /\ Running(w)
    /\ worker[w].at = "helo"
    /\ LET r == Issue(worker[w], "HELO", sending_domain)
       IN  \/ worker' = [worker EXCEPT ![w] = [Answered(r, "ok", 0) EXCEPT !.at = "mail"]]
           \/ worker' = [worker EXCEPT ![w] = Raised(r)]
    /\ UNCHANGED future
    /\ ThreadFrame

\* a probe that returns on a rejected sender without quitting
SmtpMailNoQuit(w) ==
    /\ Running(w)
    /\ worker[w].at = "mail"
    /\ LET r == Issue(worker[w], "MAIL", Sender)
       IN  \/ \E code \in MailCodes :
                worker' = [worker EXCEPT ![w] =
                    LET q == [Answered(r, "code", code) EXCEPT !.mail = code, !.at = "rcpt"]
                    IN  IF code # 250 THEN EndProbe(q, "rejected") ELSE q]
           \/ worker' = [worker EXCEPT ![w] = Raised(r)]
    /\ UNCHANGED future
    /\ ThreadFrame

\* lines 90-91: server.mail(...) answers with a code or raises
SmtpMail(w) ==
    /\ Running(w)
    /\ worker[w].at = "mail"
    /\ LET r == Issue(worker[w], "MAIL", Sender)
       IN  \/ \E code \in MailCodes :
                worker' = [worker EXCEPT ![w] =
                    [Answered(r, "code", code) EXCEPT
                        !.mail = code, !.at = IF code # 250 THEN "quit" ELSE "rcpt"]]
           \/ worker' = [worker EXCEPT ![w] = Raised(r)]
    /\ UNCHANGED future
    /\ ThreadFrame

\* line 95: server.rcpt(email) answers with a code or raises
SmtpRcpt(w) ==
    /\ Running(w)
    /\ worker[w].at = "rcpt"
    /\ LET r == Issue(worker[w], "RCPT", worker[w].email)
       IN  \/ \E code \in RcptCodes :
                worker' = [worker EXCEPT ![w] =
                    [Answered(r, "code", code) EXCEPT !.rcpt = code, !.at = "quit"]]
           \/ worker' = [worker EXCEPT ![w] = Raised(r)]
    /\ UNCHANGED future
    /\ ThreadFrame

\* the probe going on to DATA where it should close
SmtpQuitSendsData(w) ==
    /\ Running(w)
    /\ worker[w].at = "quit"
    /\ LET r == Issue(Issue(worker[w], "DATA", <<>>), "QUIT", <<>>)
       IN  \/ worker' = [worker EXCEPT ![w] =
                    EndProbe([Answered(r, "ok", 0) EXCEPT !.conn = "closed"],
                             ProbeResult(r.mail, r.rcpt))]
           \/ worker' = [worker EXCEPT ![w] = Raised(r)]
    /\ UNCHANGED future
    /\ ThreadFrame

\* lines 92-93 and 96-99: server.quit() succeeds and closes the socket, and the
\* probe returns by the codes, or it raises, and the handler of line 101
\* returns False
SmtpQuit(w) ==
    /\ Running(w)
    /\ worker[w].at = "quit"
    /\ LET r == Issue(worker[w], "QUIT", <<>>)
       IN  \/ worker' = [worker EXCEPT ![w] =
                    EndProbe([Answered(r, "ok", 0) EXCEPT !.conn = "closed"],
                             ProbeResult(r.mail, r.rcpt))]
           \/ worker' = [worker EXCEPT ![w] = Raised(r)]
    /\ UNCHANGED future
    /\ ThreadFrame

\* lines 169-177: what verify_email_batch appends for the email just verified
ResultOf(r) == IF r.at = "raised" THEN "BAD" ELSE r.verdict

\* a batch loop that also appends each verdict to the run-wide list
AppendResultShared(w) ==
    /\ Running(w)
    /\ worker[w].at \in {"returned", "raised"}
    /\ LET r   == worker[w]
           v   == IF r.at = "raised" THEN "BAD" ELSE r.verdict
           res == Append(r.results, v)
       IN  /\ all_results' = Append(all_results, v)
           /\ IF r.pos < Len(batches[r.batch])
              THEN /\ worker' = [worker EXCEPT ![w] =
                           [IdleWorker EXCEPT !.batch = r.batch, !.pos = r.pos + 1,
                                              !.results = res, !.at = "call"]]
                   /\ UNCHANGED future
              ELSE /\ worker' = [worker EXCEPT ![w] = IdleWorker]
                   /\ future' = [future EXCEPT ![r.batch] =
                           [@ EXCEPT !.state = "done", !.result = <<>>,
                                     !.order = 1 + Cardinality({b \in 1..Len(future) :
                                                   future[b].state \in {"done", "failed"}})]]
    /\ UNCHANGED << companies, disposable_domains, trusted_turkish_domains,
                    verified_count, bad_count, pc, max_workers, batches, submitted,
                    collected, tagged >>

\* a batch loop that stops at the first email whose verification raises
AppendResultStopsOnRaise(w) ==
    /\ Running(w)
    /\ worker[w].at \in {"returned", "raised"}
    /\ LET r   == worker[w]
           res == Append(r.results, IF r.at = "raised" THEN "BAD" ELSE r.verdict)
       IN  IF r.pos < Len(batches[r.batch]) /\ r.at # "raised"
           THEN /\ worker' = [worker EXCEPT ![w] =
                        [IdleWorker EXCEPT !.batch = r.batch, !.pos = r.pos + 1,
                                           !.results = res, !.at = "call"]]
                /\ UNCHANGED future
           ELSE /\ worker' = [worker EXCEPT ![w] = IdleWorker]
                /\ future' = [future EXCEPT ![r.batch] =
                        [@ EXCEPT !.state = "done", !.result = res,
                                  !.order = 1 + Cardinality({b \in 1..Len(future) :
                                                future[b].state \in {"done", "failed"}})]]
    /\ ThreadFrame

\* the rank of the next future to finish
NextOrder == Cardinality({b \in 1..Len(future) : IsFinished(future[b])}) + 1

\* lines 167-179: the verdict (or "BAD" after an exception) is appended; after
\* the last email of the batch the list is returned and the future is done
AppendResult(w) ==
    /\ Running(w)
    /\ worker[w].at \in {"returned", "raised"}
    /\ LET r   == worker[w]
           res == Append(r.results, ResultOf(r))
       IN  IF r.pos < Len(batches[r.batch])
           THEN /\ worker' = [worker EXCEPT ![w] =
                        [IdleWorker EXCEPT !.batch = r.batch, !.pos = r.pos + 1,
                                           !.results = res, !.at = "call"]]
                /\ UNCHANGED future
           ELSE /\ worker' = [worker EXCEPT ![w] = IdleWorker]
                /\ future' = [future EXCEPT ![r.batch] =
                        [@ EXCEPT !.state = "done", !.result = res, !.order = NextOrder]]
    /\ ThreadFrame

\* an error that verify_email_batch does not handle ends the work item: the
\* future holds the exception, which future.result() raises (line 215)
WorkerFail(w) ==
    /\ Running(w)
    /\ future' = [future EXCEPT ![worker[w].batch] =
            [@ EXCEPT !.state = "failed", !.order = NextOrder]]
    /\ worker' = [worker EXCEPT ![w] = IdleWorker]
    /\ ThreadFrame

Next ==
    \/ SetDisposableDomains
    \/ load_companies_from_csv
    \/ StartVerifyAll
    \/ Submit
    \/ BeginCollect
    \/ Collect
    \/ EndCollect
    \/ Tag
    \/ Count
    \/ \E w \in Workers :
        \/ TakeBatch(w)
        \/ FormatCheck(w)
        \/ DomainExistence(w)
        \/ MXExistence(w)
        \/ Reputation(w)
        \/ SmtpResolve(w)
        \/ SmtpConnect(w)
        \/ SmtpHelo(w)
        \/ SmtpMail(w)
        \/ SmtpRcpt(w)
        \/ SmtpQuit(w)
        \/ AppendResult(w)
        \/ WorkerFail(w)

Spec == Init /\ [][Next]_vars

\* The pool threads and the orchestrator are scheduled, and every call to
\* the resolver or to the SMTP server returns or raises within its timeout
\* (lines 33-34: 5 s per DNS query; line 82: 10 s per SMTP operation): a
\* step that can be taken is taken in the end.
SpecLive == Init /\ [][Next]_vars /\ WF_vars(Next)

(***************************************************************************)
(* Cancellation.  The source has no run-level timeout (as_completed is     *)
(* called without one) and no cancellation flag; the signal it can receive *)
(* is KeyboardInterrupt, raised in the main thread inside the with block.  *)
(***************************************************************************)
\* KeyboardInterrupt is no Exception: the handler of line 219 does not catch
\* it, and the with block is left through ThreadPoolExecutor.__exit__
Cancel ==
    /\ pc \in {"submit", "collect"}
    /\ pc' = "cancelled"
    /\ UNCHANGED << companies, disposable_domains, trusted_turkish_domains,
                    verified_count, bad_count, max_workers, batches, submitted,
                    future, collected, all_results, tagged, worker >>

\* __exit__ is shutdown(wait=True), without cancel_futures: it joins the pool
\* threads, which first empty the work queue; then the interrupt leaves
\* verify_all_emails
Interrupted ==
    /\ pc = "cancelled"
    /\ \A b \in 1..Len(future) : future[b].state \notin {"pending", "running"}
    /\ pc' = "interrupted"
    /\ UNCHANGED << companies, disposable_domains, trusted_turkish_domains,
                    verified_count, bad_count, max_workers, batches, submitted,
                    future, collected, all_results, tagged, worker >>

NextCancel ==
    \/ Next
    \/ Cancel
    \/ Interrupted

SpecCancel == Init /\ [][NextCancel]_vars

(***************************************************************************)
(* The format check alone: verify_email_comprehensive is called on one     *)
(* address, drawn from every string over FormatAlphabet of up to           *)
(* MaxAddressLen characters and from the candidate addresses.              *)
(***************************************************************************)
FormatAlphabet == {"a", "@", "."}

UserSubDomainTld ==
    <<"U", "s", "e", "r", "@", "S", "u", "b", ".", "D", "o", "m", "a", "i", "n", ".", "T", "L", "D">>

FormatInputs ==
    UNION {[1..n -> FormatAlphabet] : n \in 0..MaxAddressLen}
        \cup Candidates \cup {UserSubDomainTld}

\* a pool thread of verify_email_batch about to verify the only address
InitFormat ==
    /\ \E e \in FormatInputs :
        /\ companies = <<Record(1, e)>>
        /\ batches = <<(<<e>>)>>
    /\ disposable_domains = DefaultDisposable
    /\ trusted_turkish_domains = DefaultTrusted
    /\ verified_count = 0
    /\ bad_count = 0
    /\ pc = "collect"
    /\ max_workers = 1
    /\ submitted = 1
    /\ future = <<[state |-> "running", result |-> <<>>, order |-> 0, early |-> FALSE]>>
    /\ collected = <<>>
    /\ all_results = <<>>
    /\ tagged = 0
    /\ worker = [w \in Workers |->
            IF w = 1 THEN [IdleWorker EXCEPT !.batch = 1, !.pos = 1, !.at = "call"]
            ELSE IdleWorker]

NextFormat == \E w \in Workers : FormatCheck(w)

SpecFormat == InitFormat /\ [][NextFormat]_vars

(***************************************************************************)
(* The partition into batches alone: verify_all_emails is called on every  *)
(* list of up to MaxListLen records and cuts its emails into batches.      *)
(***************************************************************************)
InitBatches ==
    /\ \E n \in 0..MaxListLen : \E f \in [1..n -> RunCandidates] :
            companies = [i \in 1..n |-> Record(i, f[i])]
    /\ disposable_domains = DefaultDisposable
    /\ trusted_turkish_domains = DefaultTrusted
    /\ verified_count = 0
    /\ bad_count = 0
    /\ pc = "loaded"
    /\ max_workers = 0
    /\ batches = <<>>
    /\ submitted = 0
    /\ future = <<>>
    /\ collected = <<>>
    /\ all_results = <<>>
    /\ tagged = 0
    /\ worker = [w \in Workers |-> IdleWorker]

NextBatches == StartVerifyAll

SpecBatches == InitBatches /\ [][NextBatches]_vars

(***************************************************************************)
(* get_verification_statistics and filter_verified_companies.              *)
(***************************************************************************)
IsVerified(c) == c.email_verification = "200"

\* line 272: the number of verified emails under which more data is needed
ExpansionThreshold == 1000

\* lines 277-280
filter_verified_companies == SelectSeq(companies, IsVerified)

\* lines 262-275: the empty dict for an empty list; success_rate is the
\* quotient verified_count / len(companies) * 100, kept as a fraction
get_verification_statistics ==
    IF companies = <<>> THEN <<>>
    ELSE [ total_companies |-> Len(companies),
           verified_emails |-> verified_count,
           bad_emails      |-> bad_count,
           success_rate    |-> [num |-> verified_count * 100, den |-> Len(companies)],
           needs_expansion |-> verified_count < ExpansionThreshold ]

(***************************************************************************)
(* Notions the properties share.                                           *)
(***************************************************************************)
Tokens == {"200", "BAD"}

\* the batch and the position in it of record i
BatchOf(i) == ((i - 1) \div batch_size) + 1

PosOf(i) == ((i - 1) % batch_size) + 1

\* the verdict produced for record i's own email: the entry of its batch's
\* result list, or "BAD" when its batch failed
OwnVerdict(i) == BatchOutcome(BatchOf(i))[PosOf(i)]

\* a thread has finished verifying its current email
Finished(w) == Running(w) /\ worker[w].at \in {"returned", "raised"}

OpsOf(r) == {r.io[k].op : k \in 1..Len(r.io)}

SmtpOps == {"CONNECT", "HELO", "MAIL", "RCPT", "QUIT"}

IsSmtpEvent(ev) == ev.op \in SmtpOps

\* the SMTP commands of a verification, in the order issued
SmtpCommands(r) == SelectSeq(r.io, IsSmtpEvent)

\* all four gates before the SMTP probe passed
GatesPassed(r) ==
    {"FormatCheck", "DomainExistence", "MXExistence", "Reputation"} \subseteq r.passed

SomeFailed == \E b \in 1..Len(future) : future[b].state = "failed"

SomeDone == \E b \in 1..Len(future) : future[b].state = "done"

(***************************************************************************)
(* C1: after verify_all_emails the verdict stored on record i is the       *)
(* verdict produced for record i's own email, in whatever order the        *)
(* batches complete.  The code appends the batches in completion order.    *)
(***************************************************************************)
C1_InputOrder ==
    pc = "returned" =>
        \A i \in 1..Len(companies) :
            future[BatchOf(i)].state = "done" =>
                companies[i].email_verification = OwnVerdict(i)

(***************************************************************************)
(* C2: once all batches are collected, the number of collected verdicts    *)
(* equals the number of input records, whatever batches succeeded or       *)
(* failed, so the tagging loop never pads.                                 *)
(***************************************************************************)
C2_OneVerdictPerCandidate ==
    pc \in {"tag", "returned", "raised"} => Len(all_results) = Len(companies)

C2_Witness ==
    /\ pc = "tag"
    /\ Len(companies) = MaxRecords
    /\ SomeFailed
    /\ SomeDone

(***************************************************************************)
(* C3: an address that passed the four gates and whose SMTP probe ended    *)
(* with a fault (connection, timeout, protocol error) gets "200".  The     *)
(* code returns "BAD": the probe's own handler turns the fault into False. *)
(***************************************************************************)
C3_OptimisticFallback ==
    \A w \in Workers :
        (Finished(w) /\ GatesPassed(worker[w]) /\ worker[w].probe = "fault")
            => ResultOf(worker[w]) = "200"

(***************************************************************************)
(* C4: every verdict produced, collected or stored is one of the tokens    *)
(* "200" and "BAD"; after the run every record carries one of them.        *)
(***************************************************************************)
C4_TwoTokens ==
    /\ \A w \in Workers :
        /\ \A k \in 1..Len(worker[w].results) : worker[w].results[k] \in Tokens
        /\ Finished(w) => ResultOf(worker[w]) \in Tokens
    /\ \A k \in 1..Len(all_results) : all_results[k] \in Tokens
    /\ \A i \in 1..Len(companies) :
        (i <= tagged => companies[i].email_verification \in Tokens)
    /\ pc \in {"returned", "raised"} => tagged = Len(companies)

C4_Witness ==
    /\ pc = "returned"
    /\ \E i, j \in 1..Len(companies) :
        /\ companies[i].email_verification = "200"
        /\ companies[j].email_verification = "BAD"
    /\ SomeFailed

(***************************************************************************)
(* C5: the stages run in the order FormatCheck, DomainExistence,           *)
(* MXExistence, Reputation, SMTPProbe; a stage is entered only if every    *)
(* earlier stage passed, none is entered twice, the first failing stage    *)
(* ends the verification with "BAD", and "200" implies the four gates      *)
(* before the probe passed.                                                *)
(***************************************************************************)
C5_StrictStageOrder ==
    \A w \in Workers :
        LET r == worker[w]
        IN  /\ Len(r.stages) <= Len(StageOrder)
            /\ \A k \in 1..Len(r.stages) : r.stages[k] = StageOrder[k]
            /\ \A k \in 1..(Len(r.stages) - 1) : r.stages[k] \in r.passed
            /\ \A k \in 1..Len(r.stages) :
                (r.stages[k] \notin r.passed /\ r.at \notin {"call", "raised"} /\ k < 5)
                    => (r.at = "returned" /\ r.verdict = "BAD")
            /\ (r.at = "returned" /\ r.verdict = "BAD") =>
                    r.stages[Len(r.stages)] \notin r.passed
            /\ r.verdict = "200" => (GatesPassed(r) /\ Len(r.stages) = 5)

C5_Witness ==
    \E w \in Workers :
        /\ Finished(w)
        /\ worker[w].verdict = "200"
        /\ worker[w].stages = StageOrder

(***************************************************************************)
(* C6: an address that fails format validation (an empty or missing        *)
(* email, one without '@', one the pattern rejects) yields "BAD" and no    *)
(* DNS query and no SMTP command is issued for it.                         *)
(***************************************************************************)
Malformed == {NotAnEmail, ANoDot, TwoAts, <<>>, None}

FailsFormat(e) ==
    \/ e \in Malformed
    \/ ~IsStr(e)
    \/ ~HasAt(e)
    \/ ~MatchesPattern(Strip(ToLower(e)))

\* the candidate addresses that fail the format check
FormatFailures == {e \in Candidates : FailsFormat(e)}

C6_FormatFailureNoIO ==
    \A w \in Workers :
        (Running(w) /\ CurrentEmail(w) \in FormatFailures) =>
            /\ worker[w].io = <<>>
            /\ Finished(w) => ResultOf(worker[w]) = "BAD"
            /\ worker[w].at \in {"call", "returned", "raised"}

C6_Witness ==
    \E w \in Workers :
        /\ Finished(w)
        /\ CurrentEmail(w) = TwoAts
        /\ worker[w].stages = <<"FormatCheck">>

(***************************************************************************)
(* C7: for every setting of the domain lists and every DNS outcome, an     *)
(* address whose domain is in the disposable set gets "BAD" and no SMTP    *)
(* probe is issued for it.  The code tests the allow-list first, by        *)
(* substring.                                                              *)
(***************************************************************************)
C7_DisposableRejected ==
    \A w \in Workers :
        (Running(w) /\ worker[w].domain \in disposable_domains) =>
            /\ "SMTPProbe" \notin { worker[w].stages[k] : k \in 1..Len(worker[w].stages) }
            /\ Finished(w) => ResultOf(worker[w]) = "BAD"

(***************************************************************************)
(* C8: if the worker of a batch fails, every candidate of that batch and   *)
(* no candidate of another batch is assigned "BAD" for it, no candidate is *)
(* lost, and the remaining batches are collected.                          *)
(***************************************************************************)
C8_FailedBatchIsBad ==
    (pc = "returned" /\ SomeFailed) =>
        /\ Len(all_results) = Len(companies)
        /\ Len(collected) = Len(batches)
        /\ \A i \in 1..Len(companies) :
            IF future[BatchOf(i)].state = "failed"
            THEN companies[i].email_verification = "BAD"
            ELSE companies[i].email_verification = future[BatchOf(i)].result[PosOf(i)]

(***************************************************************************)
(* C9 as stated: the probe issues connect, HELO <sending domain>,          *)
(* MAIL FROM:<test@sending domain>, RCPT TO:<address> in this order, RCPT  *)
(* TO only after MAIL FROM was answered 250 (any other code ends the probe *)
(* without RCPT TO and without acceptance), and the probe reports          *)
(* acceptance if and only if the RCPT TO reply code is 250 or 251.         *)
(***************************************************************************)
CommandOrder(r) ==
    LET c == SmtpCommands(r)
    IN  /\ Len(c) <= 5
        /\ \A k \in 1..Len(c) :
            /\ k = 1 => c[k].op = "CONNECT"
            /\ k = 2 => c[k] = Event("HELO", sending_domain)
            /\ k = 3 => c[k] = Event("MAIL", Sender)
            /\ k = 4 => \/ (c[k] = Event("RCPT", r.email) /\ r.mail = 250)
                        \/ (c[k].op = "QUIT" /\ r.mail \notin {0, 250})
            /\ k = 5 => (c[k].op = "QUIT" /\ c[4].op = "RCPT")
        /\ "RCPT" \in OpsOf(r) => r.mail = 250
        /\ (r.at = "returned" /\ r.mail \notin {0, 250}) =>
                (~SmtpReturn(r.probe) /\ "RCPT" \notin OpsOf(r))

Probed(r) == r.at = "returned" /\ "SMTPProbe" \in {r.stages[k] : k \in 1..Len(r.stages)}

C10_NoData ==
    \A w \in Workers :
        LET r == worker[w]
        IN  /\ OpsOf(r) \subseteq {"A", "MX", "CONNECT", "HELO", "MAIL", "RCPT", "QUIT"}
            /\ Cardinality({k \in 1..Len(r.io) : r.io[k].op = "CONNECT"}) <= 1
            /\ \A k \in 1..Len(r.io) :
                r.io[k].op = "QUIT" => k = Len(r.io)

C10_Witness ==
    \E w \in Workers :
        /\ Finished(w)
        /\ {"HELO", "MAIL", "RCPT", "QUIT"} \subseteq OpsOf(worker[w])
        /\ worker[w].probe = "rejected"


(***************************************************************************)
(* Notions of the claims about the DNS lookups, the counts and the frame.  *)
(***************************************************************************)
StagesOf(r) == {r.stages[k] : k \in 1..Len(r.stages)}

\* the lookup of gate k (1: DomainExistence, 2: MXExistence) and its stage
GateStage(k) == StageOrder[k + 1]

TaggedWith(token) ==
    Cardinality({i \in 1..Len(companies) : companies[i].email_verification = token})

\* C11: check_domain_exists and check_domain_mx_record never raise: a gate
\* passes exactly when its lookup was answered with a record; a timeout or
\* NXDOMAIN makes the gate return BAD at once, and no address whose lookups
\* were issued ends with an exception.
C11_DnsNeverRaises ==
    \A w \in Workers :
        LET r == worker[w]
        IN  /\ r.at = "raised" => r.io = <<>>
            /\ \A k \in 1..2 :
                (k <= Len(r.replies)) =>
                    /\ r.io[k] = Event(IF k = 1 THEN "A" ELSE "MX", r.domain)
                    /\ (GateStage(k) \in r.passed) <=> (r.replies[k].kind = "answer")
                    /\ r.replies[k].kind # "answer" =>
                        /\ r.at = "returned"
                        /\ r.verdict = "BAD"
                        /\ Len(r.io) = k

C11_Witness ==
    \E w \in Workers :
        /\ Finished(w)
        /\ Len(worker[w].replies) = 2
        /\ worker[w].replies[1].kind = "answer"
        /\ worker[w].replies[2].kind = "timeout"
        /\ worker[w].verdict = "BAD"

\* C12: once verify_all_emails has ended, verified_count + bad_count is the
\* number of records, verified_count is the number of records tagged "200"
\* (the list filter_verified_companies returns) and bad_count the number of
\* records tagged "BAD"; get_verification_statistics reports these counts.
C12_CountsPartition ==
    pc \in {"returned", "raised"} =>
        /\ verified_count + bad_count = Len(companies)
        /\ verified_count = Len(filter_verified_companies)
        /\ verified_count = TaggedWith("200")
        /\ bad_count = TaggedWith("BAD")
        /\ companies # <<>> =>
            LET stats == get_verification_statistics
            IN  /\ stats.total_companies = stats.verified_emails + stats.bad_emails
                /\ stats.verified_emails = Len(filter_verified_companies)
                /\ stats.bad_emails = TaggedWith("BAD")

C12_Witness ==
    /\ pc = "returned"
    /\ verified_count > 0
    /\ bad_count > 0
    /\ Len(companies) = MaxRecords

\* C13: for every list of records, the empty one included, verify_all_emails
\* returns normally: no error escapes it.
C13_ReturnsNormally == pc # "raised"

\* the frame of verify_all_emails: same records, in the same order, equal in
\* every field but email_verification
Masked(c) == [c EXCEPT !.email_verification = NoField]

FrameKept ==
    /\ Len(companies') = Len(companies)
    /\ \A i \in 1..Len(companies) :
        /\ DOMAIN companies'[i] = DOMAIN companies[i]
        /\ Masked(companies'[i]) = Masked(companies[i])

\* C14: verify_all_emails changes nothing in the records except the field
\* email_verification: every step other than the loading of the list keeps
\* the number of records, their order and all their other fields.
C14_Frame == [][pc' # "loaded" => FrameKept]_vars

C14_Witness ==
    /\ pc = "returned"
    /\ Len(companies) = MaxRecords
    /\ \A i \in 1..Len(companies) :
        /\ companies[i].name = i
        /\ companies[i].email_verification \in Tokens


(***************************************************************************)
(* Notions of the claims about the format check and the reputation stage.  *)
(***************************************************************************)
\* the text after the only '@' of an address
DomainPart(e) ==
    LET at == CHOOSE i \in AtPositions(e) : TRUE
    IN  SubSeq(e, at + 1, Len(e))

LocalPart(e) ==
    LET at == CHOOSE i \in AtPositions(e) : TRUE
    IN  SubSeq(e, 1, at - 1)

Dots(d) == {i \in 1..Len(d) : d[i] = "."}

\* an address user@label. ... .tld: a local part of letters and digits, a
\* domain of two or more non-empty labels of letters and digits separated by
\* single dots, the last label of two or more letters
WellFormed(e) ==
    /\ Cardinality(AtPositions(e)) = 1
    /\ LET l == LocalPart(e)
           d == DomainPart(e)
       IN  /\ Len(l) > 0
           /\ \A i \in 1..Len(l) : l[i] \in Letter \cup Digit
           /\ Dots(d) # {}
           /\ \A i \in 1..Len(d) : d[i] \in Letter \cup Digit \cup {"."}
           /\ 1 \notin Dots(d)
           /\ Len(d) \notin Dots(d)
           /\ \A i \in Dots(d) : (i + 1) \notin Dots(d)
           /\ LET last == CHOOSE i \in Dots(d) : \A j \in Dots(d) : j <= i
              IN  /\ Len(d) - last >= 2
                  /\ \A i \in (last + 1)..Len(d) : d[i] \in Letter

FormatAccepted(r) == r.at = "DomainExistence" /\ "FormatCheck" \in r.passed

FormatRejected(r) ==
    /\ r.at \in {"returned", "raised"}
    /\ ResultOf(r) = "BAD"
    /\ r.passed = {}
    /\ r.io = <<>>

\* C15: the format check rejects every address that does not hold exactly
\* one '@' and every address whose domain part holds no dot, and it accepts
\* every well-formed address of the shape user@sub.domain.tld.
C15_FormatCheck ==
    \A w \in Workers :
        (Running(w) /\ worker[w].at # "call") =>
            LET e == CurrentEmail(w)
                r == worker[w]
            IN  /\ FormatAccepted(r) \/ FormatRejected(r)
                /\ Cardinality(AtPositions(e)) # 1 => FormatRejected(r)
                /\ (Cardinality(AtPositions(e)) = 1 /\ Dots(DomainPart(e)) = {})
                        => FormatRejected(r)
                /\ WellFormed(e) => FormatAccepted(r)

C15_Witness ==
    \E w \in Workers :
        /\ Running(w)
        /\ CurrentEmail(w) = UserSubDomainTld
        /\ FormatAccepted(worker[w])
        /\ worker[w].domain = ToLower(DomainPart(UserSubDomainTld))

\* domain is entry, or ends with entry
EndsWith(domain, entry) ==
    /\ Len(entry) <= Len(domain)
    /\ \A i \in 1..Len(entry) : domain[Len(domain) - Len(entry) + i] = entry[i]

SuffixTrusted(domain) == \E t \in trusted_turkish_domains : EndsWith(domain, t)

\* the reputation stage passed r's address without a lookup of its own
TreatedAsTrusted(r) ==
    /\ "Reputation" \in r.passed
    /\ \A k \in 3..Len(r.io) : r.io[k].op # "A"

\* C16: a domain is treated as Trusted exactly when it equals, or ends with,
\* an entry of the allow-list; containing an entry elsewhere is not enough.
C16_TrustedBySuffix ==
    \A w \in Workers :
        "Reputation" \in StagesOf(worker[w]) =>
            (TreatedAsTrusted(worker[w]) <=> SuffixTrusted(worker[w].domain))

PrefixOf(a, b) == Len(a) <= Len(b) /\ \A k \in 1..Len(a) : a[k] = b[k]

\* C17: a verification is a function of the address and of what the
\* environment answers: two finished verifications of the same address whose
\* answers agree as far as both go asked the same questions, got the same
\* answers and returned the same verdict.
C17_Deterministic ==
    \A w1 \in Workers : \A w2 \in Workers :
        ( /\ Finished(w1)
          /\ Finished(w2)
          /\ CurrentEmail(w1) = CurrentEmail(w2)
          /\ PrefixOf(worker[w1].replies, worker[w2].replies) )
        => /\ ResultOf(worker[w1]) = ResultOf(worker[w2])
           /\ worker[w1].replies = worker[w2].replies
           /\ worker[w1].io = worker[w2].io
           /\ worker[w1].stages = worker[w2].stages

C17_Witness ==
    \E w1 \in Workers : \E w2 \in Workers :
        /\ w1 # w2
        /\ Finished(w1)
        /\ Finished(w2)
        /\ worker[w1].pos # worker[w2].pos
        /\ CurrentEmail(w1) = CurrentEmail(w2)
        /\ worker[w1].replies = worker[w2].replies
        /\ Len(worker[w1].replies) > 3
        /\ worker[w1].verdict = "200"
        /\ worker[w2].verdict = "200"

ProbeReached(r) ==
    \/ r.at \in {"SMTPProbe", "connect", "helo", "mail", "rcpt", "quit"}
    \/ r.at = "returned" /\ "SMTPProbe" \in StagesOf(r)

\* C18: an address of a trusted domain with a valid local part whose domain
\* has A and MX records is never rejected by the reputation stage: it
\* reaches the SMTP probe.
C18_TrustedReachesProbe ==
    \A w \in Workers :
        LET r == worker[w]
        IN  ( /\ {"FormatCheck", "DomainExistence", "MXExistence"} \subseteq r.passed
              /\ r.at # "Reputation"
              /\ SuffixTrusted(r.domain) )
            => /\ "Reputation" \in r.passed
               /\ ProbeReached(r)
               /\ \A k \in 3..Len(r.io) : r.io[k].op # "A"

C18_Witness ==
    \E w \in Workers :
        /\ worker[w].domain \in trusted_turkish_domains
        /\ "Reputation" \in worker[w].passed
        /\ worker[w].at = "connect"

Unknown(domain) == ~IsTrusted(domain) /\ domain \notin disposable_domains

InFlight == {b \in 1..Len(future) : future[b].state = "running"}

ThreadsOn(b) == {w \in Workers : worker[w].batch = b}

\* the pool holds at most max_workers batches, one thread each
PoolBounded ==
    /\ Cardinality(InFlight) <= max_workers
    /\ \A b \in InFlight : Cardinality(ThreadsOn(b)) = 1
    /\ \A w \in Workers :
        worker[w].batch # 0 => (w <= max_workers /\ worker[w].batch \in InFlight)

\* a thread leaves its batch only when the batch is finished, and is then idle
BatchToCompletion ==
    \A w \in Workers :
        (worker[w].batch # 0 /\ worker'[w].batch # worker[w].batch) =>
            /\ worker'[w].batch = 0
            /\ IsFinished(future'[worker[w].batch])

\* C21: at every moment at most max_workers batches are being processed,
\* each of them by exactly one worker, and a worker finishes its current
\* batch before it takes the next one.
C21_BoundedPool == [][PoolBounded /\ PoolBounded' /\ BatchToCompletion]_vars

C21_Witness ==
    /\ max_workers = 1
    /\ Cardinality(InFlight) = 1
    /\ \E b \in 1..Len(future) : future[b].state = "pending"
    /\ \E w \in Workers : worker[w].at = "connect"


RECURSIVE Flatten(_)
\* the lists of a list of lists, one after the other
Flatten(lists) ==
    IF lists = <<>> THEN <<>>
    ELSE lists[1] \o Flatten(SubSeq(lists, 2, Len(lists)))

Emails == [i \in 1..Len(companies) |-> companies[i].email]

\* C22: the email list is cut into consecutive batches of exactly batch_size
\* emails, only the last one possibly shorter and none empty; every input
\* position lies in exactly one batch, and the batches one after the other
\* are the input list.
C22_Partition ==
    pc = "submit" =>
        /\ \A k \in 1..Len(batches) :
            /\ Len(batches[k]) >= 1
            /\ Len(batches[k]) <= batch_size
            /\ k < Len(batches) => Len(batches[k]) = batch_size
        /\ Flatten(batches) = Emails
        /\ \A i \in 1..Len(Emails) :
            /\ BatchOf(i) \in 1..Len(batches)
            /\ PosOf(i) \in 1..Len(batches[BatchOf(i)])
            /\ batches[BatchOf(i)][PosOf(i)] = Emails[i]
        /\ Len(future) = Len(batches)

C22_Witness ==
    /\ pc = "submit"
    /\ Len(batches) >= 3
    /\ Len(batches[Len(batches)]) < batch_size
    /\ \E i \in 1..Len(Emails) : Emails[i] # Emails[1]


\* the list verify_email_batch holds has one verdict per email it is done with
OneVerdictPerEmail ==
    /\ \A w \in Workers :
        worker[w].batch # 0 => Len(worker[w].results) = worker[w].pos - 1
    /\ \A b \in 1..Len(future) :
        future[b].state = "done" => Len(future[b].result) = Len(batches[b])

\* what thread w does with a verification that has ended, and with one that
\* has not: the verdict, or "BAD" after an exception, is appended to the
\* verdicts so far, and the next email of the batch is taken
BatchStep(w) ==
    LET r   == worker[w]
        b   == r.batch
        res == Append(r.results, IF r.at = "raised" THEN "BAD" ELSE r.verdict)
    IN  (b # 0 /\ worker'[w] # r /\ future'[b].state # "failed") =>
            IF r.at \in {"returned", "raised"}
            THEN IF r.pos < Len(batches[b])
                 THEN /\ worker'[w].batch = b
                      /\ worker'[w].pos = r.pos + 1
                      /\ worker'[w].results = res
                      /\ worker'[w].at = "call"
                      /\ future'[b].state = "running"
                 ELSE /\ future'[b].state = "done"
                      /\ future'[b].result = res
            ELSE /\ worker'[w].batch = b
                 /\ worker'[w].pos = r.pos
                 /\ worker'[w].results = r.results

\* C23: verify_email_batch goes through the emails of its batch in order and
\* returns one verdict per email in batch order; an exception raised by one
\* verification gives "BAD" for that email only, the emails after it are
\* still verified and the verdicts before it are kept.
C23_BatchKeepsGoing ==
    [][OneVerdictPerEmail' /\ \A w \in Workers : BatchStep(w)]_vars

C23_Witness ==
    \E b \in 1..Len(future) :
        /\ future[b].state = "done"
        /\ batches[b] = <<NonString, InfoGmail>>
        /\ future[b].result = <<"BAD", "200">>


\* the run is over: verify_all_emails returned or raised
Terminated == pc \in {"returned", "raised"}

\* C24: when every DNS query and SMTP operation ends within its timeout,
\* every verification reaches a verdict, every batch completes or fails and
\* verify_all_emails eventually returns.
C24_EventuallyReturns == <>(pc = "returned")

\* every run ends, by a return or by the exception of the empty list
RunTerminates == <>Terminated


\* C25: once the run is cancelled no new batch is issued: a batch that is
\* not in flight yet is not started; the batches in flight go on to their
\* end.
C25_NoNewBatchAfterCancel ==
    [][pc = "cancelled" =>
        \A b \in 1..Len(future) :
            future[b].state \in {"unsubmitted", "pending"} =>
                future'[b].state = future[b].state]_vars


\* what the orchestrator alone writes
RunWide == << companies, verified_count, bad_count, collected, all_results, tagged >>

\* a step of a pool thread changes that thread's locals and the future of
\* its own batch, and nothing else
ThreadStepIsLocal ==
    worker' # worker =>
        /\ RunWide' = RunWide
        /\ \E w \in Workers :
            /\ \A v \in Workers \ {w} : worker'[v] = worker[v]
            /\ \A b \in 1..Len(future) :
                (b # worker[w].batch /\ b # worker'[w].batch) => future'[b] = future[b]

\* C26: the pool threads never write a shared result structure: each builds
\* the list of its own batch; the run-wide list, the records and the two
\* counters change only in steps of the orchestrator, in which no thread
\* moves.
C26_NoSharedMutation == [][ThreadStepIsLocal]_vars

C26_Witness ==
    \E w1 \in Workers : \E w2 \in Workers :
        /\ w1 # w2
        /\ Running(w1)
        /\ Running(w2)
        /\ worker[w1].results # <<>>
        /\ worker[w2].at = "returned"
        /\ all_results = <<>>


(***************************************************************************)
(* The verdict as a function of the address and of the answers.            *)
(***************************************************************************)
\* the candidate addresses that pass the format check, and their domains
WellFormatted == Candidates \ FormatFailures

DomainOf == [e \in WellFormatted |-> SplitAt1(Strip(ToLower(e)))]

Negative(reply) == reply.kind \in {"nxdomain", "timeout", "raise"}

\* the verdict of address e when the environment answered q, in this order,
\* to the queries and commands of its verification; "?" when q is not what
\* a verification of e asks for
ExpectedVerdict(e, q) ==
    IF e \in FormatFailures THEN (IF q = <<>> THEN "BAD" ELSE "?")
    ELSE LET d       == DomainOf[e]
             trusted == IsTrusted(d)
             denied  == ~trusted /\ d \in disposable_domains
             lookups == IF trusted \/ denied THEN 2 ELSE 3
             full    == lookups + 6
             n       == Len(q)
         IN  IF n = 0 \/ \E k \in 1..(n - 1) : Negative(q[k]) THEN "?"
             ELSE IF Negative(q[n]) THEN "BAD"
             ELSE IF denied THEN (IF n = 2 THEN "BAD" ELSE "?")
             ELSE IF n = full - 1
                  THEN (IF q[lookups + 4].code # 250 THEN "BAD" ELSE "?")
             ELSE IF n = full
                  THEN (IF /\ q[lookups + 4].code = 250
                           /\ q[lookups + 5].code \in {250, 251}
                        THEN "200" ELSE "BAD")
             ELSE "?"

\* C27: the verdict of an address is a function of the address and of the
\* environment's answers to its own verification: whatever its batch, its
\* position, the other candidates and their verdicts, a finished
\* verification returns ExpectedVerdict of its address and its answers.
C27_VerdictDependsOnOwnAnswers ==
    \A w \in Workers :
        Finished(w) =>
            ResultOf(worker[w]) = ExpectedVerdict(CurrentEmail(w), worker[w].replies)

C27_Witness ==
    \E w \in Workers :
        /\ Finished(w)
        /\ worker[w].pos = 2
        /\ batches[worker[w].batch][1] = CurrentEmail(w)
        /\ worker[w].results = <<"BAD">>
        /\ worker[w].verdict = "200"


\* no batch is queued or in flight and every pool thread is idle
PoolDone ==
    /\ \A b \in 1..Len(future) : IsFinished(future[b])
    /\ \A w \in Workers : worker[w].batch = 0

SomethingWritten ==
    \/ pc \in {"tag", "returned", "raised"}
    \/ tagged > 0
    \/ verified_count # 0
    \/ bad_count # 0
    \/ \E i \in 1..Len(companies) : companies[i].email_verification # NoField

\* a field or a count that was written stays as it is
WrittenOnce ==
    /\ \A i \in 1..Len(companies) :
        companies[i].email_verification # NoField =>
            /\ i <= Len(companies')
            /\ companies'[i].email_verification = companies[i].email_verification
    /\ pc \in {"returned", "raised"} =>
            (verified_count' = verified_count /\ bad_count' = bad_count)
    /\ tagged' # tagged => (tagged' = tagged + 1 /\ pc = "tag")

\* C28: no record is tagged and no count is computed while a batch is still
\* in flight: the fields and the counts are written only after every batch
\* completed or failed, each field once, and it does not change afterwards.
C28_WrittenAfterAllBatches == [][(SomethingWritten' => PoolDone') /\ WrittenOnce]_vars

C28_Witness ==
    /\ pc = "tag"
    /\ tagged = 1
    /\ Len(companies) = MaxRecords
    /\ companies[1].email_verification = "200"
    /\ companies[2].email_verification = NoField
    /\ SomeFailed


CollectedOutcomes == [k \in 1..Len(collected) |-> BatchOutcome(collected[k])]

\* all_results is made of whole batch result lists, one after the other
WholeBatches ==
    /\ all_results = Flatten(CollectedOutcomes)
    /\ \A j \in 1..Len(collected) : \A k \in 1..Len(collected) :
            j # k => collected[j] # collected[k]
    /\ \A k \in 1..Len(collected) :
            /\ IsFinished(future[collected[k]])
            /\ Len(BatchOutcome(collected[k])) = Len(batches[collected[k]])
    /\ (Len(batches) = 1 /\ collected = <<1>>) =>
            /\ Len(all_results) = Len(companies)
            /\ \A i \in 1..Len(companies) : all_results[i] = OwnVerdict(i)

\* C30 as stated: all_results is the concatenation of whole batch result
\* lists in the order in which the batches completed; with a single batch,
\* verdict i belongs to candidate i.
C30_CompletionOrder ==
    /\ WholeBatches
    /\ \A j \in 1..Len(collected) : \A k \in 1..Len(collected) :
            j < k => future[collected[j]].order < future[collected[k]].order

\* C30 as amended: the same, in the order in which as_completed yields the
\* batches: those already finished when the collection loop starts come
\* first, in no particular order, the others after them in the order in
\* which they completed.
C30_YieldOrder ==
    /\ WholeBatches
    /\ \A j \in 1..Len(collected) : \A k \in 1..Len(collected) :
            j < k =>
                \/ future[collected[j]].early /\ future[collected[k]].early
                \/ future[collected[j]].order < future[collected[k]].order

C30_Witness ==
    /\ collected = <<2, 1>>
    /\ ~future[2].early
    /\ future[1].state = "done"
    /\ future[2].state = "done"
    /\ future[1].result = <<"BAD", "200">>
    /\ all_results = <<"BAD", "BAD", "200">>

====
